---- MODULE Spec2Model ----
(***************************************************************************)
(* A model of long-transcriber: silence-based segmentation of an audio     *)
(* signal (AudioProcessor), concurrent transcription of the segments       *)
(* (TranscriptionService) and the writing of the reports (OutputFormatter) *)
(* as driven by process_transcription.                                     *)
(*                                                                         *)
(* An audio signal is modelled as a two-level signal: a length in ms and   *)
(* the set of its loud spans <<from, to>> (half-open, in ms).  Loud        *)
(* samples are full scale and all other samples are digital silence, so    *)
(* the rms of a slice is above the silence threshold exactly when the      *)
(* slice holds a loud sample.                                              *)
(***************************************************************************)
EXTENDS Integers, Sequences, FiniteSets, TLC

\* ------------------------------------------------------------------------
\* Bounds of the model
\* ------------------------------------------------------------------------

\* the largest number of loud spans of an input signal
MaxLoudSpans == 3

\* the largest number of 10-second windows an input signal reaches into
MaxChunks == 2

\* the longest list of candidate ranges given to the merge pass on its own
MaxCandidates == 3

\* ------------------------------------------------------------------------
\* Program constants
\* ------------------------------------------------------------------------

chunk_size == 10000

seek_step == 100

\* ------------------------------------------------------------------------
\* Helpers
\* ------------------------------------------------------------------------

Min(a, b) == IF a <= b THEN a ELSE b

Max(a, b) == IF a >= b THEN a ELSE b

\* body applied to the value of v, which is evaluated once
WithValue(v, body(_)) == CHOOSE r \in {body(x) : x \in {v}} : TRUE

RECURSIVE SumSpans(_)
\* sum(end - start for start, end in ranges)
SumSpans(ranges) ==
    IF ranges = <<>> THEN 0
    ELSE (ranges[1][2] - ranges[1][1]) + SumSpans(Tail(ranges))

\* ------------------------------------------------------------------------
\* pydub.AudioSegment
\* ------------------------------------------------------------------------

\* AudioSegment.empty()
EmptyAudio == [len |-> 0, loud |-> {}]

\* audio[from:to]: the bounds are clamped to the signal
Slice(audio, from, to) ==
    LET lo == Max(0, Min(from, audio.len))
        hi == Max(lo, Min(to, audio.len))
    IN  [len  |-> hi - lo,
         loud |-> {<<Max(p[1], lo) - lo, Min(p[2], hi) - lo>> :
                     p \in {q \in audio.loud : q[1] < hi /\ q[2] > lo}}]

\* audio_slice.rms <= silence_thresh
IsSilent(audio) == audio.loud = {}

\* seg + speech: the samples of seg in front of those of speech
Prepended(speech, seg) ==
    [len  |-> seg.len + speech.len,
     loud |-> seg.loud \cup {<<p[1] + seg.len, p[2] + seg.len>> : p \in speech.loud}]

\* speech + seg (AudioSegment.__add__, append without crossfade): the samples
\* of speech followed by those of seg
Appended(speech, seg) ==
    [len  |-> speech.len + seg.len,
     loud |-> speech.loud \cup
              {<<p[1] + speech.len, p[2] + speech.len>> : p \in seg.loud}]

\* ------------------------------------------------------------------------
\* pydub.silence
\* ------------------------------------------------------------------------

\* range(0, last_slice_start + 1, seek_step), chained with last_slice_start
\* when it is not a multiple of seek_step
SliceStarts(seg_len, min_silence_len, step) ==
    LET last == seg_len - min_silence_len
        n    == (last \div step) + 1
    IN  [k \in 1..n |-> (k - 1) * step]
            \o (IF last % step # 0 THEN <<last>> ELSE <<>>)

\* the loop of detect_silence that combines the silent slice starts into
\* ranges.  A range is closed, and the next one opened, at every start that is
\* neither continuous with the start before it nor within min_silence_len of
\* it; the j-th range runs from the j-th such start to the last start before
\* the next one, plus min_silence_len.
CombineSilence(starts, min_silence_len, step) ==
    LET n       == Len(starts)
        opens   == {k \in 1..n :
                      \/ k = 1
                      \/ LET silence_start_i == starts[k]
                             prev_i          == starts[k - 1]
                             continuous      == silence_start_i = prev_i + step
                             silence_has_gap == silence_start_i > prev_i + min_silence_len
                         IN  ~continuous /\ silence_has_gap}
        open(j) == CHOOSE k \in opens : Cardinality({o \in opens : o < k}) = j - 1
        last(j) == IF j = Cardinality(opens) THEN n ELSE open(j + 1) - 1
    IN  [j \in 1..Cardinality(opens) |->
            <<starts[open(j)], starts[last(j)] + min_silence_len>>]

\* pydub.silence.detect_silence
detect_silence(audio, min_silence_len, step) ==
    IF audio.len < min_silence_len THEN <<>>
    ELSE WithValue(
             SelectSeq(SliceStarts(audio.len, min_silence_len, step),
                       LAMBDA i : IsSilent(Slice(audio, i, i + min_silence_len))),
             LAMBDA silence_starts :
                 IF silence_starts = <<>> THEN <<>>
                 ELSE CombineSilence(silence_starts, min_silence_len, step))

\* pydub.silence.detect_nonsilent
detect_nonsilent(audio, min_silence_len, step) ==
    WithValue(detect_silence(audio, min_silence_len, step),
              LAMBDA silent_ranges :
        LET len_seg == audio.len
            n       == Len(silent_ranges)
        IN  IF silent_ranges = <<>> THEN << <<0, len_seg>> >>
            ELSE IF silent_ranges[1][1] = 0 /\ silent_ranges[1][2] = len_seg THEN <<>>
            ELSE LET between == [i \in 1..n |->
                                   <<IF i = 1 THEN 0 ELSE silent_ranges[i - 1][2],
                                     silent_ranges[i][1]>>]
                     all     == IF silent_ranges[n][2] # len_seg
                                THEN Append(between, <<silent_ranges[n][2], len_seg>>)
                                ELSE between
                 IN  IF all[1] = <<0, 0>> THEN Tail(all) ELSE all)

\* pydub.silence.split_on_silence: the ranges padded by keep_silence, two
\* paddings that overlap meeting halfway, sliced out of the signal
split_on_silence(audio, min_silence_len, keep_silence, step) ==
    WithValue(detect_nonsilent(audio, min_silence_len, step),
              LAMBDA nonsilent :
        LET n         == Len(nonsilent)
            padded(i) == <<nonsilent[i][1] - keep_silence,
                           nonsilent[i][2] + keep_silence>>
            \* the boundary between range i and range i + 1
            mid(i)    == (padded(i)[2] + padded(i + 1)[1]) \div 2
            start(i)  == IF i > 1 /\ padded(i)[1] < padded(i - 1)[2]
                         THEN mid(i - 1) ELSE padded(i)[1]
            end(i)    == IF i < n /\ padded(i + 1)[1] < padded(i)[2]
                         THEN mid(i) ELSE padded(i)[2]
        IN  [i \in 1..n |-> Slice(audio, Max(start(i), 0), Min(end(i), audio.len))])

\* ------------------------------------------------------------------------
\* AudioProcessor.detect_speech_segments
\* ------------------------------------------------------------------------

\* a count of the windows that adds one for the last window in every case
total_chunks_plus_one(audio) == (audio.len \div chunk_size) + 1

\* len(audio) // chunk_size + (1 if len(audio) % chunk_size else 0)
total_chunks(audio) ==
    (audio.len \div chunk_size) + (IF audio.len % chunk_size # 0 THEN 1 ELSE 0)

\* chunk_end = min(current_pos + chunk_size, len(audio))
chunk_end(audio, pos) == Min(pos + chunk_size, audio.len)

\* adjusted_ranges with the ranges shifted by the end of the window instead
\* of its start
adjusted_ranges_by_chunk_end(audio, pos, p) ==
    LET chunk == Slice(audio, pos, chunk_end(audio, pos))
    IN  WithValue(detect_nonsilent(chunk, p.min_silence_len, seek_step),
                  LAMBDA chunk_ranges :
            [i \in 1..Len(chunk_ranges) |->
                <<chunk_ranges[i][1] + chunk_end(audio, pos),
                  chunk_ranges[i][2] + chunk_end(audio, pos)>>])

\* one window of the scan: detect_nonsilent on audio[current_pos:chunk_end],
\* the ranges shifted by the window's position
adjusted_ranges(audio, pos, p) ==
    LET chunk == Slice(audio, pos, chunk_end(audio, pos))
    IN  WithValue(detect_nonsilent(chunk, p.min_silence_len, seek_step),
                  LAMBDA chunk_ranges :
            [i \in 1..Len(chunk_ranges) |->
                <<chunk_ranges[i][1] + pos, chunk_ranges[i][2] + pos>>])

RECURSIVE MergeIntoPairwise(_, _, _)
\* a merge loop that joins a candidate to the range before it and then takes
\* the next candidate as it is, without comparing it to the joined range
MergeIntoPairwise(merged, rest, min_silence_len) ==
    IF rest = <<>> THEN merged
    ELSE LET current == rest[1]
             prev    == merged[Len(merged)]
             joined  == [merged EXCEPT ![Len(merged)] =
                            <<prev[1], Max(current[2], prev[2])>>]
         IN  IF current[1] <= prev[2] + min_silence_len
             THEN IF Len(rest) = 1 THEN joined
                  ELSE MergeIntoPairwise(Append(joined, rest[2]),
                                         Tail(Tail(rest)), min_silence_len)
             ELSE MergeIntoPairwise(Append(merged, current), Tail(rest),
                                    min_silence_len)

RECURSIVE MergeIntoLast(_, _, _)
\* a merge loop that ends the joined range where the current candidate ends
MergeIntoLast(merged, rest, min_silence_len) ==
    IF rest = <<>> THEN merged
    ELSE LET current == rest[1]
             prev    == merged[Len(merged)]
         IN  IF current[1] <= prev[2] + min_silence_len
             THEN MergeIntoLast([merged EXCEPT ![Len(merged)] =
                                    <<prev[1], current[2]>>],
                                Tail(rest), min_silence_len)
             ELSE MergeIntoLast(Append(merged, current), Tail(rest),
                                min_silence_len)

RECURSIVE MergeInto(_, _, _)
\* the loop of the merge pass: merged is merged_ranges, rest the candidates
\* still to visit
MergeInto(merged, rest, min_silence_len) ==
    IF rest = <<>> THEN merged
    ELSE LET current == rest[1]
             prev    == merged[Len(merged)]
         IN  IF current[1] <= prev[2] + min_silence_len
             THEN MergeInto([merged EXCEPT ![Len(merged)] =
                                <<prev[1], Max(current[2], prev[2])>>],
                            Tail(rest), min_silence_len)
             ELSE MergeInto(Append(merged, current), Tail(rest), min_silence_len)

\* the merge pass: "Merge adjacent or overlapping ranges"
MergeRanges(candidates, min_silence_len) ==
    IF candidates = <<>> THEN candidates
    ELSE MergeInto(<<candidates[1]>>, Tail(candidates), min_silence_len)

\* an analysis that takes the speech to run from the first range's start to
\* the last range's end
AnalyseSpan(audio, ranges) ==
    LET total_duration == audio.len
        total_speech   == IF ranges = <<>> THEN 0
                          ELSE ranges[Len(ranges)][2] - ranges[1][1]
        total_silence  == total_duration - total_speech
    IN  [total_duration    |-> total_duration,
         speech_duration   |-> total_speech,
         silence_duration  |-> total_silence,
         speech_percentage |-> <<total_speech * 100, total_duration>>,
         segment_count     |-> Len(ranges)]

\* the AudioAnalysis of a signal of a positive duration; speech_percentage is
\* kept as the pair of its numerator and denominator (it is a float)
Analyse(audio, ranges) ==
    LET total_duration == audio.len
        total_speech   == SumSpans(ranges)
        total_silence  == total_duration - total_speech
    IN  [total_duration    |-> total_duration,
         speech_duration   |-> total_speech,
         silence_duration  |-> total_silence,
         speech_percentage |-> <<total_speech * 100, total_duration>>,
         segment_count     |-> Len(ranges)]

\* ------------------------------------------------------------------------
\* TranscriptionService
\* ------------------------------------------------------------------------

\* the text the API returns for a segment: a function of the audio sent
Transcript(segment) == <<"text of", segment>>

\* the TranscriptionResult that transcribe_segment builds
MakeResult(segment, start_time) ==
    [start_time |-> start_time,
     end_time   |-> start_time + segment.len,
     duration   |-> segment.len,
     text       |-> Transcript(segment)]

\* zip(segments, ranges) stops at the shorter list
ZipLen(segs, rngs) == Min(Len(segs), Len(rngs))

\* the order of a sort with reverse=True
InOrderDescending(a, b) == a.start_time >= b.start_time

\* the key of the final sort: are a and b in order?
InOrder(a, b) == a.start_time <= b.start_time

RECURSIVE InsertSorted(_, _)
\* r inserted after every element that is in order with it (a stable sort)
InsertSorted(sorted, r) ==
    IF sorted = <<>> THEN <<r>>
    ELSE IF InOrder(sorted[1], r)
         THEN <<sorted[1]>> \o InsertSorted(Tail(sorted), r)
         ELSE <<r>> \o sorted

RECURSIVE SortedByStart(_)
\* sorted(results, key=lambda x: x.start_time)
SortedByStart(rs) ==
    IF rs = <<>> THEN <<>>
    ELSE InsertSorted(SortedByStart(SubSeq(rs, 1, Len(rs) - 1)), rs[Len(rs)])

\* ------------------------------------------------------------------------
\* The inputs of a run
\* ------------------------------------------------------------------------

\* the durations of the input signals, in ms: the empty signal, one shorter
\* than every min_silence_len, one of a single window, signals of a whole
\* number of windows, and signals that end 200 ms and 2000 ms into a later
\* window
AudioLengths ==
    {0, 300, 3000}
        \cup {k * chunk_size : k \in 1..(MaxChunks - 1)}
        \cup {k * chunk_size + 200 : k \in 1..(MaxChunks - 1)}
        \cup {k * chunk_size + 2000 : k \in 1..(MaxChunks - 1)}

\* the instants at which a loud span of an input signal may start or end
LoudMarks == {0, 1000, 1400, 2000, 3000, 9800, 10000, 10300}

\* the loud spans that pair up the instants of S in ascending order
SpansOf(S) ==
    {p \in S \X S :
        /\ p[1] < p[2]
        /\ Cardinality({x \in S : x < p[1]}) % 2 = 0
        /\ Cardinality({x \in S : x < p[2]}) = Cardinality({x \in S : x < p[1]}) + 1}

\* the input signals
Audios ==
    {[len |-> L, loud |-> SpansOf(S)] :
        <<L, S>> \in {q \in AudioLengths \X SUBSET LoudMarks :
                        /\ \A x \in q[2] : x <= q[1]
                        /\ Cardinality(q[2]) % 2 = 0
                        /\ Cardinality(q[2]) <= 2 * MaxLoudSpans}}

\* the SilenceParams of a run: the defaults, a run that keeps no silence, and
\* a min_silence_len that is no multiple of the seek step
ParamsSet ==
    {[min_silence_len |-> 400, keep_silence |-> 300],
     [min_silence_len |-> 1000, keep_silence |-> 0],
     [min_silence_len |-> 250, keep_silence |-> 100]}

\* ------------------------------------------------------------------------
\* State
\* ------------------------------------------------------------------------

VARIABLES
    audio,             \* the decoded input signal
    params,            \* self.params of the AudioProcessor
    dry_run,           \* args.dry_run
    api_key,           \* whether OPENAI_API_KEY is set in the environment
    pc,                \* the position of process_transcription
    error,             \* the exception that ended the run, or "none"
    current_pos,       \* detect_speech_segments: current_pos
    nonsilent_ranges,  \* detect_speech_segments: nonsilent_ranges
    pbar,              \* detect_speech_segments: updates of the progress bar
    windows,           \* detect_speech_segments: the windows scanned so far
    segments,          \* the segments returned by detect_speech_segments
    ranges,            \* the ranges returned by detect_speech_segments
    analysis,          \* the AudioAnalysis returned, or NoAnalysis
    speech_audio,      \* the speech-only track, or NoAudio
    task,              \* batch_transcribe: the state of each task
    temp,              \* the temporary file of each task
    api,               \* what the API call of each task did: "none", "ok", "error"
    raised,            \* the exception each call raised, or "none"
    gathered,          \* asyncio.gather: the result slot of each task
    gather_exc,        \* asyncio.gather: the first exception raised by a task
    exc_segment,       \* the segment that exception names (0: none)
    batch,             \* batch_transcribe: "idle", "pending", "returned", "raised"
    results,           \* the list batch_transcribe returned
    completion,        \* the order in which the calls completed
    files              \* the output files written by the run

vars == <<audio, params, dry_run, api_key, pc, error, current_pos,
          nonsilent_ranges, pbar, windows, segments, ranges, analysis, speech_audio, task, temp, api, raised,
          gathered, gather_exc, exc_segment, batch, results, completion, files>>

inputVars == <<audio, params, dry_run, api_key>>

detectVars == <<current_pos, nonsilent_ranges, pbar, windows, segments, ranges,
                analysis>>

batchVars == <<task, temp, api, raised, gathered, gather_exc, exc_segment,
               batch, results, completion>>

NoAnalysis == [segment_count |-> -1]

NoAudio == [len |-> -1]

NoResult == [start_time |-> -1]

NoFiles == [speech_only |-> "absent", analysis |-> "absent",
            json |-> "absent", text |-> "absent"]

\* the number of tasks of the batch
NumTasks == Len(task)

\* the state at the entry of process_transcription, which main calls when
\* dry_run is off and the API key is set
Init ==
    /\ audio \in Audios
    /\ params \in ParamsSet
    /\ dry_run = FALSE
    /\ api_key = TRUE
    /\ pc = "load"
    /\ error = "none"
    /\ current_pos = 0
    /\ nonsilent_ranges = <<>>
    /\ pbar = 0
    /\ windows = <<>>
    /\ segments = <<>>
    /\ ranges = <<>>
    /\ analysis = NoAnalysis
    /\ speech_audio = NoAudio
    /\ task = <<>>
    /\ temp = <<>>
    /\ api = <<>>
    /\ raised = <<>>
    /\ gathered = <<>>
    /\ gather_exc = "none"
    /\ exc_segment = 0
    /\ batch = "idle"
    /\ results = <<>>
    /\ completion = <<>>
    /\ files = NoFiles

\* ------------------------------------------------------------------------
\* process_transcription: load, detect, extract
\* ------------------------------------------------------------------------

\* an exception of the steps before batch_transcribe skipping the rest of the
\* try block
ContinueAfterExtractError == "batch"

\* an exception of load_audio, detect_speech_segments, create_speech_only_audio
\* or the export of the speech-only track leaves the try block of
\* process_transcription: the handler logs it and raises it again
OnExtractError == "failed"

\* processor.load_audio(input_file): the decoder returns the signal or raises
LoadAudio ==
    /\ pc = "load"
    /\ \/ /\ pc' = "scan"
          /\ error' = error
       \/ /\ pc' = OnExtractError
          /\ error' = "CouldntDecodeError"
    /\ UNCHANGED inputVars
    /\ UNCHANGED <<speech_audio, files>>
    /\ UNCHANGED detectVars
    /\ UNCHANGED batchVars

\* one iteration of the while loop of detect_speech_segments
ScanChunk ==
    /\ pc = "scan"
    /\ current_pos < audio.len
    /\ nonsilent_ranges' =
           nonsilent_ranges \o adjusted_ranges(audio, current_pos, params)
    /\ windows' = Append(windows, <<current_pos, chunk_end(audio, current_pos)>>)
    /\ current_pos' = chunk_end(audio, current_pos)
    /\ pbar' = pbar + 1
    /\ UNCHANGED inputVars
    /\ UNCHANGED <<speech_audio, pc, error, segments, ranges, analysis, files>>
    /\ UNCHANGED batchVars

\* detect_speech_segments after the loop: the merge pass, the analysis (the
\* division raises for a signal of 0 ms) and split_on_silence
FinishDetect ==
    /\ pc = "scan"
    /\ ~(current_pos < audio.len)
    /\ LET merged_ranges == MergeRanges(nonsilent_ranges, params.min_silence_len)
       IN  IF audio.len = 0
           THEN /\ pc' = OnExtractError
                /\ error' = "ZeroDivisionError"
                /\ nonsilent_ranges' = merged_ranges
                /\ UNCHANGED <<segments, ranges, analysis>>
           ELSE /\ pc' = "speech_only"
                /\ error' = error
                /\ nonsilent_ranges' = merged_ranges
                /\ analysis' = Analyse(audio, merged_ranges)
                /\ segments' = split_on_silence(audio, params.min_silence_len,
                                                params.keep_silence, seek_step)
                /\ ranges' = merged_ranges
    /\ UNCHANGED inputVars
    /\ UNCHANGED <<speech_audio, current_pos, pbar, windows, files>>
    /\ UNCHANGED batchVars

RECURSIVE Concatenated(_, _)
\* the loop of create_speech_only_audio: speech_audio = speech_audio + segment
Concatenated(speech, rest) ==
    IF rest = <<>> THEN speech
    ELSE Concatenated(Appended(speech, Head(rest)), Tail(rest))

\* AudioProcessor.create_speech_only_audio
create_speech_only_audio(segs) ==
    IF segs = <<>> THEN EmptyAudio ELSE Concatenated(Head(segs), Tail(segs))

\* create_speech_only_audio and the export of the speech-only track, which
\* runs the encoder and may raise
CreateSpeechOnly ==
    /\ pc = "speech_only"
    /\ speech_audio' = create_speech_only_audio(segments)
    /\ \/ /\ pc' = IF dry_run THEN "report" ELSE "batch"
          /\ error' = error
          /\ files' = [files EXCEPT !.speech_only = "written"]
       \/ /\ pc' = OnExtractError
          /\ error' = "CouldntEncodeError"
          /\ files' = files
    /\ UNCHANGED inputVars
    /\ UNCHANGED detectVars
    /\ UNCHANGED batchVars

\* ------------------------------------------------------------------------
\* TranscriptionService.batch_transcribe
\* ------------------------------------------------------------------------

\* batch_transcribe up to the await: one task per pair of zip(segments, ranges)
StartBatch ==
    /\ pc = "batch"
    /\ pc' = "await"
    /\ batch' = "pending"
    /\ task' = [i \in 1..ZipLen(segments, ranges) |-> "created"]
    /\ temp' = [i \in 1..ZipLen(segments, ranges) |-> "none"]
    /\ api' = [i \in 1..ZipLen(segments, ranges) |-> "none"]
    /\ raised' = [i \in 1..ZipLen(segments, ranges) |-> "none"]
    /\ gathered' = [i \in 1..ZipLen(segments, ranges) |-> NoResult]
    /\ UNCHANGED inputVars
    /\ UNCHANGED <<speech_audio, error, gather_exc, exc_segment, results,
                   completion, files>>
    /\ UNCHANGED detectVars

\* the first exception a task raises is the one gather raises
FirstException(exc) == IF gather_exc = "none" THEN exc ELSE gather_exc

\* the segment named by the exception that leaves transcribe_segment for
\* segment_id: the handler logs segment_id and raises the exception again as
\* it caught it, and the exceptions of the exporter and of the API client
\* name no segment
RaisedSegment(segment_id) == 0

\* the segment named by the first exception
FirstSegment(segment_id) ==
    IF gather_exc = "none" THEN RaisedSegment(segment_id) ELSE exc_segment

\* transcribe_segment of task i up to its await: the tasks take their first
\* step in the order of their creation.  export_segment returns the path of a
\* new temporary file, or raises before or after it has created the file.
TaskStart(i) ==
    /\ task[i] = "created"
    /\ \A j \in 1..(i - 1) : task[j] # "created"
    /\ \/ /\ task' = [task EXCEPT ![i] = "awaiting"]
          /\ temp' = [temp EXCEPT ![i] = "exists"]
          /\ UNCHANGED <<raised, gather_exc, exc_segment>>
       \/ \E created \in BOOLEAN :
          /\ task' = [task EXCEPT ![i] = "failed"]
          /\ temp' = [temp EXCEPT ![i] = IF created THEN "exists" ELSE "none"]
          /\ raised' = [raised EXCEPT ![i] = "ExportError"]
          /\ gather_exc' = FirstException("ExportError")
          /\ exc_segment' = FirstSegment(i)
    /\ UNCHANGED inputVars
    /\ UNCHANGED <<speech_audio, pc, error, api, gathered, batch, results,
                   completion, files>>
    /\ UNCHANGED detectVars

\* cleanup_temp_file: os.unlink removes the file, or fails and is logged
Cleanup(i, unlinked) ==
    temp' = [temp EXCEPT ![i] = IF unlinked THEN "deleted" ELSE "exists"]

\* a cleanup that lets the exception of os.unlink leave the finally clause,
\* where it replaces the outcome of the try body
CleanupRaises(outcome, unlinked) == IF unlinked THEN outcome ELSE "OSError"

\* what leaves the finally clause of transcribe_segment: cleanup_temp_file
\* catches and logs the exception of os.unlink, so the outcome of the try
\* body ("result" or the exception raised in it) stands
AfterCleanup(outcome, unlinked) == outcome

\* the call of task i leaves transcribe_segment with out: its result goes to
\* its slot of the gather, its exception is logged, raised again and taken by
\* the gather if it is the first
Leave(i, out) ==
    /\ task' = [task EXCEPT ![i] = IF out = "result" THEN "done"
                                   ELSE IF out = "CancelledError" THEN "cancelled"
                                   ELSE "failed"]
    /\ raised' = [raised EXCEPT ![i] = IF out = "result" THEN "none" ELSE out]
    /\ gathered' = IF out = "result" /\ batch = "pending"
                   THEN [gathered EXCEPT ![i] = MakeResult(segments[i], ranges[i][1])]
                   ELSE gathered
    /\ gather_exc' = IF out \in {"result", "CancelledError"} THEN gather_exc
                     ELSE FirstException(out)
    /\ exc_segment' = IF out \in {"result", "CancelledError"} THEN exc_segment
                      ELSE FirstSegment(i)

\* the API call of task i returns: the result is built and returned through
\* the finally clause
ApiSucceed(i) ==
    /\ task[i] = "awaiting"
    /\ api' = [api EXCEPT ![i] = "ok"]
    /\ completion' = Append(completion, i)
    /\ \E unlinked \in BOOLEAN :
           /\ Cleanup(i, unlinked)
           /\ Leave(i, AfterCleanup("result", unlinked))
    /\ UNCHANGED inputVars
    /\ UNCHANGED <<speech_audio, pc, error, batch, results, files>>
    /\ UNCHANGED detectVars

\* the API call of task i raises: the finally clause runs, the error is
\* logged and raised again
ApiFail(i) ==
    /\ task[i] = "awaiting"
    /\ api' = [api EXCEPT ![i] = "error"]
    /\ completion' = Append(completion, i)
    /\ \E unlinked \in BOOLEAN :
           /\ Cleanup(i, unlinked)
           /\ Leave(i, AfterCleanup("APIError", unlinked))
    /\ UNCHANGED inputVars
    /\ UNCHANGED <<speech_audio, pc, error, batch, results, files>>
    /\ UNCHANGED detectVars

\* asyncio.run cancels the tasks still pending once the run has ended:
\* CancelledError is raised at the await and the finally clause runs
Cancel(i) ==
    /\ task[i] = "awaiting"
    /\ pc \in {"failed", "done"}
    /\ \E unlinked \in BOOLEAN :
           /\ Cleanup(i, unlinked)
           /\ Leave(i, AfterCleanup("CancelledError", unlinked))
    /\ UNCHANGED inputVars
    /\ UNCHANGED <<speech_audio, pc, error, api, batch, results, completion,
                   files>>
    /\ UNCHANGED detectVars

\* a gather that waits for every task and returns whatever was gathered
\* (as with return_exceptions=True)
GatherAll(t, exc) ==
    IF \A i \in 1..Len(t) : t[i] \in {"done", "failed"} THEN "returned"
    ELSE "pending"

\* a wait that rejects an empty collection of tasks
WaitNonEmpty(t, exc) ==
    IF t = <<>> THEN "raised"
    ELSE IF exc # "none" /\ \A i \in 1..Len(t) : t[i] # "created" THEN "raised"
    ELSE IF \A i \in 1..Len(t) : t[i] = "done" THEN "returned"
    ELSE "pending"

\* asyncio.gather(*tasks): raises the first exception of a task once every
\* task has taken its first step, returns when every task has returned
GatherOutcome(t, exc) ==
    IF exc # "none" /\ \A i \in 1..Len(t) : t[i] # "created" THEN "raised"
    ELSE IF \A i \in 1..Len(t) : t[i] = "done" THEN "returned"
    ELSE "pending"

\* batch_transcribe returns the gathered results sorted by start_time
BatchReturn ==
    /\ pc = "await"
    /\ GatherOutcome(task, gather_exc) = "returned"
    /\ batch' = "returned"
    /\ results' = SortedByStart(gathered)
    /\ pc' = "save"
    /\ UNCHANGED inputVars
    /\ UNCHANGED <<speech_audio, error, task, temp, api, raised, gathered,
                   gather_exc, exc_segment, completion, files>>
    /\ UNCHANGED detectVars

\* a handler that logs the error of the batch and carries on to the reports
ContinueAfterBatchError == "save"

\* where process_transcription goes when batch_transcribe raises: the
\* handler logs the error and raises it again
OnBatchError == "failed"

\* batch_transcribe raises the exception of gather
BatchRaise ==
    /\ pc = "await"
    /\ GatherOutcome(task, gather_exc) = "raised"
    /\ batch' = "raised"
    /\ error' = gather_exc
    /\ pc' = OnBatchError
    /\ UNCHANGED inputVars
    /\ UNCHANGED <<speech_audio, task, temp, api, raised, gathered, gather_exc,
                   exc_segment, results, completion, files>>
    /\ UNCHANGED detectVars

\* ------------------------------------------------------------------------
\* OutputFormatter.save_all_formats
\* ------------------------------------------------------------------------

\* the analysis report is written; json.dump raises TypeError at the first
\* TranscriptionResult (a dataclass instance), after the file was opened and
\* the analysis part written; with no result both transcripts are written
SaveAllFormats ==
    /\ pc = "save"
    /\ IF results = <<>>
       THEN /\ files' = [files EXCEPT !.analysis = "written", !.json = "written",
                                      !.text = "written"]
            /\ pc' = "done"
            /\ error' = error
       ELSE /\ files' = [files EXCEPT !.analysis = "written", !.json = "partial"]
            /\ pc' = "failed"
            /\ error' = "TypeError"
    /\ UNCHANGED inputVars
    /\ UNCHANGED <<speech_audio>>
    /\ UNCHANGED detectVars
    /\ UNCHANGED batchVars

\* ------------------------------------------------------------------------
\* Specification
\* ------------------------------------------------------------------------

Next ==
    \/ LoadAudio
    \/ ScanChunk
    \/ FinishDetect
    \/ CreateSpeechOnly
    \/ StartBatch
    \/ \E i \in 1..NumTasks : TaskStart(i)
    \/ \E i \in 1..NumTasks : ApiSucceed(i)
    \/ \E i \in 1..NumTasks : ApiFail(i)
    \/ \E i \in 1..NumTasks : Cancel(i)
    \/ BatchReturn
    \/ BatchRaise
    \/ SaveAllFormats

Spec == Init /\ [][Next]_vars

\* ------------------------------------------------------------------------
\* The merge pass on its own
\* ------------------------------------------------------------------------

\* the instants at which a candidate range may start or end
CandidateMarks == {0, 200, 500, 1000, 2500}

\* the candidate ranges
CandidateRanges == {r \in CandidateMarks \X CandidateMarks : r[1] < r[2]}

\* the lists of at most MaxCandidates candidate ranges ordered by start; the
\* ranges of a list may overlap and lie within one another
CandidateLists ==
    {cs \in UNION {[1..n -> CandidateRanges] : n \in 0..MaxCandidates} :
        \A k \in 1..(Len(cs) - 1) : cs[k][1] <= cs[k + 1][1]}

\* the state before the merge pass, with any ordered list of candidates
InitMerge ==
    /\ audio = EmptyAudio
    /\ params \in ParamsSet
    /\ dry_run = FALSE
    /\ api_key = TRUE
    /\ pc = "merge"
    /\ error = "none"
    /\ current_pos = 0
    /\ nonsilent_ranges \in CandidateLists
    /\ pbar = 0
    /\ windows = <<>>
    /\ segments = <<>>
    /\ ranges = <<>>
    /\ analysis = NoAnalysis
    /\ speech_audio = NoAudio
    /\ task = <<>>
    /\ temp = <<>>
    /\ api = <<>>
    /\ raised = <<>>
    /\ gathered = <<>>
    /\ gather_exc = "none"
    /\ exc_segment = 0
    /\ batch = "idle"
    /\ results = <<>>
    /\ completion = <<>>
    /\ files = NoFiles

\* the merge pass of detect_speech_segments: ranges takes merged_ranges and
\* nonsilent_ranges keeps the candidates
MergePass ==
    /\ pc = "merge"
    /\ pc' = "merged"
    /\ ranges' = MergeRanges(nonsilent_ranges, params.min_silence_len)
    /\ UNCHANGED inputVars
    /\ UNCHANGED <<speech_audio, error, current_pos, nonsilent_ranges, pbar,
                   windows, segments, analysis, files>>
    /\ UNCHANGED batchVars

SpecMerge == InitMerge /\ [][MergePass]_vars

\* ------------------------------------------------------------------------
\* main: the two modes of a run
\* ------------------------------------------------------------------------

\* the ValueError main raises when the API key is needed and not set
MissingApiKey == "ValueError: OPENAI_API_KEY environment variable is not set"

\* a check of the API key that does not look at the mode
NeedsApiKeyAlways(dry) == TRUE

\* not args.dry_run: the API key is checked only when the run transcribes
NeedsApiKey(dry) == ~dry

\* the state at the entry of main, in either mode, with or without the key
InitMain ==
    /\ audio \in Audios
    /\ params \in ParamsSet
    /\ dry_run \in BOOLEAN
    /\ api_key \in BOOLEAN
    /\ pc = "main"
    /\ error = "none"
    /\ current_pos = 0
    /\ nonsilent_ranges = <<>>
    /\ pbar = 0
    /\ windows = <<>>
    /\ segments = <<>>
    /\ ranges = <<>>
    /\ analysis = NoAnalysis
    /\ speech_audio = NoAudio
    /\ task = <<>>
    /\ temp = <<>>
    /\ api = <<>>
    /\ raised = <<>>
    /\ gathered = <<>>
    /\ gather_exc = "none"
    /\ exc_segment = 0
    /\ batch = "idle"
    /\ results = <<>>
    /\ completion = <<>>
    /\ files = NoFiles

\* main up to the call of process_dry_run or process_transcription, which
\* both start with load_audio: validate_audio_file raises for a missing file
\* or an unsupported extension, then the API key is checked
Main ==
    /\ pc = "main"
    /\ \/ \E exc \in {"FileNotFoundError", "ValueError"} :
              /\ pc' = "failed"
              /\ error' = exc
       \/ IF NeedsApiKey(dry_run) /\ ~api_key
          THEN /\ pc' = "failed"
               /\ error' = MissingApiKey
          ELSE /\ pc' = "load"
               /\ error' = error
    /\ UNCHANGED inputVars
    /\ UNCHANGED <<speech_audio, files>>
    /\ UNCHANGED detectVars
    /\ UNCHANGED batchVars

\* the end of process_dry_run: formatter.generate_analysis_report
GenerateAnalysisReport ==
    /\ pc = "report"
    /\ files' = [files EXCEPT !.analysis = "written"]
    /\ pc' = "done"
    /\ UNCHANGED inputVars
    /\ UNCHANGED <<speech_audio, error>>
    /\ UNCHANGED detectVars
    /\ UNCHANGED batchVars

NextMain ==
    \/ Main
    \/ GenerateAnalysisReport
    \/ Next

SpecMain == InitMain /\ [][NextMain]_vars

\* ------------------------------------------------------------------------
\* Properties
\* ------------------------------------------------------------------------

\* detect_speech_segments has returned
DetectReturned == analysis # NoAnalysis

\* task i has left transcribe_segment
Exited(i) == task[i] \in {"done", "failed", "cancelled"}

SortedAscending(rs) ==
    \A i \in 1..(Len(rs) - 1) : rs[i].start_time <= rs[i + 1].start_time

\* C1: when every call succeeds, the sequence batch_transcribe returns is
\* sorted ascending by start_time and is the same whatever the order in which
\* the calls completed: its k-th element is the result of the k-th pair of
\* (segment, range).
C1_SortedWhateverCompletionOrder ==
    batch = "returned" =>
        /\ SortedAscending(results)
        /\ results = [k \in 1..NumTasks |-> MakeResult(segments[k], ranges[k][1])]

\* three calls that completed last first, and the batch returned
C1_Witness ==
    /\ batch = "returned"
    /\ NumTasks = 3
    /\ completion = <<3, 2, 1>>

\* C2: when every call succeeds, batch_transcribe returns exactly one result
\* for every segment of its input list of segments.
C2_OneResultPerSegment ==
    batch = "returned" =>
        /\ Len(results) = Len(segments)
        /\ \A k \in 1..Len(segments) :
               Cardinality({j \in 1..Len(results) :
                               results[j].text = Transcript(segments[k])}) >= 1

\* C3: every result carries the range of its source segment: start_time is
\* the start of the range paired with the segment, end_time the end of that
\* range, and duration is end_time - start_time.
C3_ResultCarriesRange ==
    \A i \in 1..NumTasks :
        gathered[i] # NoResult =>
            /\ gathered[i].start_time = ranges[i][1]
            /\ gathered[i].end_time = ranges[i][2]
            /\ gathered[i].duration = gathered[i].end_time - gathered[i].start_time

\* C4: once a call of the batch has failed, batch_transcribe never returns a
\* list of results (none is delivered to process_transcription), and as soon
\* as every task has taken its first step it can only raise.
C4_FailFast ==
    (\E i \in 1..NumTasks : task[i] = "failed") =>
        /\ batch # "returned"
        /\ results = <<>>
        /\ pc \notin {"save", "done"}
        /\ (batch = "pending" /\ \A j \in 1..NumTasks : task[j] # "created")
               => ENABLED BatchRaise

\* the batch raised although another call of it had succeeded
C4_Witness ==
    /\ batch = "raised"
    /\ \E i, j \in 1..NumTasks : task[i] = "done" /\ task[j] = "failed"
    /\ results = <<>>

\* C5: the temporary file of a segment is deleted by the time its
\* transcribe_segment call exits, on every exit path.
C5_TempFileDeleted ==
    \A i \in 1..NumTasks : Exited(i) => temp[i] # "exists"

\* C6: a report file (analysis, JSON, text) is written only after every call
\* of the batch has completed successfully; when a call fails none is written.
C6_ReportsOnlyAfterBatch ==
    (files.analysis # "absent" \/ files.json # "absent" \/ files.text # "absent") =>
        /\ batch = "returned"
        /\ \A i \in 1..NumTasks : task[i] = "done"

\* the reports were written after a batch of two or more calls
C6_Witness ==
    /\ files.analysis = "written"
    /\ files.json # "absent"
    /\ NumTasks >= 2

\* C7: for a signal of 0 ms detect_speech_segments fails with the EmptySignal
\* error: it returns no analysis and does not fail by a division by zero.
C7_EmptySignalError ==
    (audio.len = 0 /\ pc \notin {"load", "scan"} /\ error # "CouldntDecodeError") =>
        /\ ~DetectReturned
        /\ error = "EmptySignal"

\* C8: the merge pass is idempotent on every candidate list of the windowed
\* scan: merging its own output changes nothing.
C8_MergeIdempotent ==
    LET merged == MergeRanges(nonsilent_ranges, params.min_silence_len)
    IN  /\ MergeRanges(merged, params.min_silence_len) = merged
        /\ MergeRanges(ranges, params.min_silence_len) = ranges

\* the scan has ended with three or more candidates that the merge pass joins
\* into one range
C8_Witness ==
    /\ pc = "scan"
    /\ ~(current_pos < audio.len)
    /\ Len(nonsilent_ranges) >= 3
    /\ Len(MergeRanges(nonsilent_ranges, params.min_silence_len)) = 1

\* C9: the returned ranges are ordered by strictly increasing start, do not
\* overlap, and each satisfies 0 <= start < end <= total duration.
C9_RangesOrdered ==
    DetectReturned =>
        \A i \in 1..Len(ranges) :
            /\ 0 <= ranges[i][1]
            /\ ranges[i][1] < ranges[i][2]
            /\ ranges[i][2] <= audio.len
            /\ i > 1 => /\ ranges[i - 1][1] < ranges[i][1]
                        /\ ranges[i - 1][2] <= ranges[i][1]

\* three ranges returned for a signal of more than one window, the last one
\* in the second window
C9_Witness ==
    /\ DetectReturned
    /\ Len(ranges) = 3
    /\ ranges[3][1] >= chunk_size

\* C10: for a non-empty signal the analysis has speech_duration = the sum of
\* the returned ranges' spans, speech_duration + silence_duration =
\* total_duration (the signal's duration) and segment_count = the number of
\* returned ranges.
C10_AnalysisConsistent ==
    DetectReturned =>
        /\ audio.len > 0
        /\ analysis.speech_duration = SumSpans(ranges)
        /\ analysis.speech_duration + analysis.silence_duration = analysis.total_duration
        /\ analysis.total_duration = audio.len
        /\ analysis.segment_count = Len(ranges)

\* an analysis of two or more ranges with silence between them
C10_Witness ==
    /\ DetectReturned
    /\ Len(ranges) >= 2
    /\ analysis.silence_duration > 0
    /\ analysis.speech_duration > 0

\* C11: the ranges returned by the windowed scan and the merge pass are the
\* ranges that one scan of the whole signal, merged the same way, gives.
C11_WindowingChangesNothing ==
    DetectReturned =>
        ranges = MergeRanges(detect_nonsilent(audio, params.min_silence_len, seek_step),
                             params.min_silence_len)

\* range i of rs extended by keep_silence on each side, its padding meeting
\* the padding of a neighbouring range halfway where the two overlap
ExtendedRange(rs, i, keep_silence) ==
    LET padded(k) == <<rs[k][1] - keep_silence, rs[k][2] + keep_silence>>
        mid(k)    == (padded(k)[2] + padded(k + 1)[1]) \div 2
    IN  <<IF i > 1 /\ padded(i)[1] < padded(i - 1)[2]
          THEN mid(i - 1) ELSE padded(i)[1],
          IF i < Len(rs) /\ padded(i + 1)[1] < padded(i)[2]
          THEN mid(i) ELSE padded(i)[2]>>

\* C12: detect_speech_segments returns as many segments as ranges, and segment
\* i is the slice of the signal over range i extended by up to keep_silence
\* (clamped to the signal and to the midpoint between neighbouring ranges).
C12_SegmentsMatchRanges ==
    DetectReturned =>
        /\ Len(segments) = Len(ranges)
        /\ \A i \in 1..Len(ranges) :
               LET ext == ExtendedRange(ranges, i, params.keep_silence)
               IN  segments[i] = Slice(audio, Max(ext[1], 0), Min(ext[2], audio.len))

\* C13: when a call fails, the failure batch_transcribe raises identifies the
\* segment that failed.
C13_FailureNamesSegment ==
    batch = "raised" =>
        /\ exc_segment \in 1..NumTasks
        /\ task[exc_segment] = "failed"

\* the errors raised before batch_transcribe is called
ExtractErrors == {"CouldntDecodeError", "ZeroDivisionError", "CouldntEncodeError"}

\* C14: when loading, detection or extraction raises, the run aborts with no
\* transcribe_segment call and no temporary segment file ever started.
C14_NoCallAfterExtractError ==
    error \in ExtractErrors =>
        /\ pc = "failed"
        /\ batch = "idle"
        /\ task = <<>>
        /\ temp = <<>>

\* extraction failed although there were segments to transcribe
C14_Witness ==
    /\ pc = "failed"
    /\ error = "CouldntEncodeError"
    /\ Len(segments) >= 2
    /\ Len(ranges) >= 1

\* C15: for a signal of a positive duration in which no non-silent range is
\* detected nothing fails: detection returns no range, 0% of speech and a
\* segment count of 0, the speech-only track is the empty buffer, and
\* batch_transcribe issues no call and returns the empty list.
C15_NoSpeechIsNotAnError ==
    (DetectReturned /\ audio.len > 0 /\ ranges = <<>>) =>
        /\ analysis.segment_count = 0
        /\ analysis.speech_percentage[1] = 0
        /\ segments = <<>>
        /\ error \in {"none", "CouldntEncodeError"}
        /\ pc # "speech_only" => speech_audio = EmptyAudio
        /\ task = <<>>
        /\ batch # "raised"
        /\ pc \in {"save", "done"} => batch = "returned" /\ results = <<>>

\* a run on a signal without speech has gone through every step
C15_Witness ==
    /\ audio.len > 0
    /\ ranges = <<>>
    /\ pc = "done"
    /\ batch = "returned"
    /\ speech_audio = EmptyAudio

RECURSIVE TotalLen(_)
\* the sum of the durations of the segments of segs
TotalLen(segs) ==
    IF segs = <<>> THEN 0 ELSE Head(segs).len + TotalLen(Tail(segs))

\* C17: the speech-only track is the concatenation of the segments in their
\* list order with nothing between them: its duration is the sum of theirs,
\* segment i lies directly after the segments before it, and no segment gives
\* the empty buffer.
C17_SpeechOnlyIsConcatenation ==
    speech_audio # NoAudio =>
        /\ speech_audio.len = TotalLen(segments)
        /\ \A i \in 1..Len(segments) :
               Slice(speech_audio, TotalLen(SubSeq(segments, 1, i - 1)),
                     TotalLen(SubSeq(segments, 1, i))) = segments[i]
        /\ segments = <<>> => speech_audio = EmptyAudio

\* a track made of at least two segments that differ
C17_Witness ==
    /\ speech_audio # NoAudio
    /\ Len(segments) >= 2
    /\ segments[1] # segments[2]
    /\ \E i \in 1..Len(segments) : segments[i].loud # {}

\* C16: a failure to delete the temporary file of a call is not fatal: the call
\* still returns its result when the API call succeeded, still raises the
\* error of the API call when that failed, and the batch is never aborted by
\* the failed deletion.
C16_CleanupFailureNotFatal ==
    /\ \A i \in 1..NumTasks :
           /\ (temp[i] = "exists" /\ api[i] = "ok") =>
                  /\ task[i] = "done"
                  /\ raised[i] = "none"
                  /\ gather_exc = "none" =>
                         gathered[i] = MakeResult(segments[i], ranges[i][1])
           /\ (temp[i] = "exists" /\ api[i] = "error") =>
                  /\ task[i] = "failed"
                  /\ raised[i] = "APIError"
    /\ gather_exc \in {"none", "APIError", "ExportError"}
    /\ batch = "raised" =>
           \E j \in 1..NumTasks : raised[j] \in {"APIError", "ExportError"}
    /\ (NumTasks > 0 /\ \A i \in 1..NumTasks : api[i] = "ok") =>
           GatherOutcome(task, gather_exc) = "returned"

\* a batch returned although the file of one of its calls was not deleted
C16_Witness ==
    /\ batch = "returned"
    /\ NumTasks >= 2
    /\ \E i \in 1..NumTasks : temp[i] = "exists" /\ api[i] = "ok"

\* the least number of windows of length d that cover n samples
CeilDiv(n, d) == (n + d - 1) \div d

\* the while loop of detect_speech_segments has nothing left to scan
ScanDone == ~(current_pos < audio.len)

\* C18: the scan ends after exactly ceil(L / 10000) iterations, the number
\* given to the progress bar; the windows it visits follow one another, none
\* is longer than 10000 ms, only the last may be shorter, and they cover
\* [0, L) exactly.
C18_ScanCoversSignal ==
    /\ pbar = Len(windows)
    /\ pbar <= CeilDiv(audio.len, chunk_size)
    /\ \A k \in 1..Len(windows) :
           /\ windows[k][1] = IF k = 1 THEN 0 ELSE windows[k - 1][2]
           /\ windows[k][1] < windows[k][2]
           /\ windows[k][2] - windows[k][1] <= chunk_size
           /\ windows[k][2] <= audio.len
           /\ k < Len(windows) => windows[k][2] - windows[k][1] = chunk_size
    /\ ScanDone =>
           /\ pbar = CeilDiv(audio.len, chunk_size)
           /\ pbar = total_chunks(audio)
           /\ IF audio.len = 0 THEN windows = <<>>
              ELSE windows[Len(windows)][2] = audio.len

\* a scan of several windows, the last one shorter, has ended
C18_Witness ==
    /\ ScanDone
    /\ Len(windows) >= 2
    /\ windows[Len(windows)][2] - windows[Len(windows)][1] < chunk_size

\* range r contains range c
Contains(r, c) == r[1] <= c[1] /\ c[2] <= r[2]

\* C19: the merge pass loses no detected speech: for every list of candidates
\* ordered by start, every candidate lies within exactly one merged range, and
\* every merged range starts where a candidate starts and ends where a
\* candidate ends.
C19_MergeLosesNothing ==
    pc = "merged" =>
        /\ \A k \in 1..Len(nonsilent_ranges) :
               Cardinality({i \in 1..Len(ranges) :
                               Contains(ranges[i], nonsilent_ranges[k])}) = 1
        /\ \A i \in 1..Len(ranges) :
               /\ \E k \in 1..Len(nonsilent_ranges) :
                      nonsilent_ranges[k][1] = ranges[i][1]
               /\ \E k \in 1..Len(nonsilent_ranges) :
                      nonsilent_ranges[k][2] = ranges[i][2]

\* three candidates, one lying within the candidate before it, merged into
\* two ranges
C19_Witness ==
    /\ pc = "merged"
    /\ Len(nonsilent_ranges) = 3
    /\ Len(ranges) = 2
    /\ \E k \in 2..3 : nonsilent_ranges[k][2] < nonsilent_ranges[k - 1][2]

\* C20: a dry run never issues a transcription call and needs no API key: it
\* detects the segments, writes the speech-only track and the analysis report,
\* and never writes the JSON or the text transcript.
C20_DryRunNeverTranscribes ==
    dry_run =>
        /\ batch = "idle"
        /\ task = <<>>
        /\ temp = <<>>
        /\ results = <<>>
        /\ error # MissingApiKey
        /\ files.json = "absent"
        /\ files.text = "absent"
        /\ pc = "done" =>
               /\ DetectReturned
               /\ files.speech_only = "written"
               /\ files.analysis = "written"

\* a dry run without an API key has ended on a signal with segments
C20_Witness ==
    /\ dry_run
    /\ ~api_key
    /\ pc = "done"
    /\ Len(segments) >= 2
    /\ files.analysis = "written"

====
